---- MODULE Spec2Model ----
(***************************************************************************)
(* Model of the Chromox beat detection service                             *)
(* (backend/beat_service/server.py).                                       *)
(*                                                                         *)
(* Number representation.  The service computes with Python/numpy floats.  *)
(* Every quantity is kept here as an exact integer numerator:              *)
(*   - a number of seconds v is kept in "ticks", the integer v * sr        *)
(*     (sr = 22050), so that frame * hop_length / sr is the integer        *)
(*     frame * hop_length and the bare number 10 is the integer 10 * sr;   *)
(*   - a confidence is kept in thousandths, a tempo in thousandths of a    *)
(*     BPM, and the rounded response fields in units of their last         *)
(*     decimal (bpm 1/100, confidence 1/1000, beats and downbeats 1/10000  *)
(*     s, duration 1/1000 s).                                              *)
(* The two coefficients of variation are irrational in general; they are   *)
(* truncated to thousandths (integer square root) before the clamp, so a    *)
(* confidence of the general case may differ from the float result by one  *)
(* thousandth; the fixed returns 0.3 and 0.4 and the clamp bounds are      *)
(* exact.                                                                  *)
(***************************************************************************)
EXTENDS Integers, Sequences, FiniteSets, TLC

(* ---------------- constants of the program ---------------- *)

SR == 22050

HOP_LENGTH == 512

ACCEPTED_SUFFIXES ==
    { <<".", "w", "a", "v">>, <<".", "m", "p", "3">>, <<".", "f", "l", "a", "c">>,
      <<".", "o", "g", "g">>, <<".", "m", "4", "a">>, <<".", "a", "a", "c">> }

(* ---------------- bounds of the model ---------------- *)

\* compute_confidence inputs: beat frame sequences of length 0..MaxBeats over 0..MaxFrame
MaxBeats == 4

MaxFrame == 3

\* onset curves of length 0..MaxOnsetLen over strengths 0..MaxStrength
MaxOnsetLen == 2

MaxStrength == 2

\* estimate_downbeats inputs: strictly increasing frame sequences over 0..MaxGridFrame
MaxGridFrame == 8

\* number of analyze_audio requests in flight
NumRequests == 2

(* ---------------- arithmetic helpers ---------------- *)

Max(a, b) == IF a >= b THEN a ELSE b

Min(a, b) == IF a <= b THEN a ELSE b

RECURSIVE SumSeq(_)
SumSeq(s) == IF s = <<>> THEN 0 ELSE s[1] + SumSeq(Tail(s))

SumSq(s) == SumSeq([i \in DOMAIN s |-> s[i] * s[i]])

RECURSIVE SqrtSearch(_, _, _)
SqrtSearch(x, lo, hi) ==
    IF lo = hi THEN lo
    ELSE LET mid == (lo + hi + 1) \div 2
         IN  IF mid * mid <= x THEN SqrtSearch(x, mid, hi)
                               ELSE SqrtSearch(x, lo, mid - 1)

\* floor of the square root of a natural number below 2^31
ISqrt(x) == SqrtSearch(x, 0, 46340)

\* Python's round(): the nearest integer to num/den, ties to even (num >= 0, den > 0)
RoundHalfEven(num, den) ==
    LET q == num \div den
        r == num % den
    IN  IF 2 * r < den THEN q
        ELSE IF 2 * r > den THEN q + 1
        ELSE IF q % 2 = 0 THEN q ELSE q + 1

\* round(t, 4) of a number of seconds kept in ticks, in units of 1/10000 s:
\* ticks * 10000 / SR, with the common factor 50 divided out
Round4(ticks) == RoundHalfEven(ticks * (10000 \div 50), SR \div 50)

\* round(t, 3) of a number of seconds kept in ticks, in units of 1/1000 s
Round3(ticks) == RoundHalfEven(ticks * (1000 \div 50), SR \div 50)

\* round(bpm, 2) of a tempo kept in thousandths of a BPM, in units of 1/100 BPM
Round2(milli) == RoundHalfEven(milli, 10)

(* ---------------- librosa.frames_to_time ---------------- *)

\* frames * hop_length / sr seconds, i.e. frames * hop_length ticks of 1/sr s
frames_to_time(frames, sr, hop_length) ==
    [i \in DOMAIN frames |-> frames[i] * hop_length]

\* a bare Python number of seconds (not converted), in ticks of 1/sr s
AsSeconds(v, sr) == v * sr

(* ---------------- compute_confidence ---------------- *)

Returned(v) == [kind |-> "return", value |-> v]

Raised(what) == [kind |-> "raise", value |-> what]

\* beat_frames[beat_frames < len(onset_env)]
InBoundsFrames_le(onset_env, beat_frames) ==
    SelectSeq(beat_frames, LAMBDA f : f <= Len(onset_env))

InBoundsFrames(onset_env, beat_frames) ==
    SelectSeq(beat_frames, LAMBDA f : f < Len(onset_env))

\* clamp of 1 - cv to [0.2, 1.0], in thousandths
Clamp_nofloor(cv) == Min(1000, 1000 - cv)

Clamp(cv) == Max(200, Min(1000, 1000 - cv))

\* np.std(x) / np.mean(x) in thousandths (truncated) from n = len(x),
\* s = sum(x) > 0 and q = sum(x^2): sqrt(n*q - s^2) / s
CoeffVar(n, s, q) == ISqrt(((n * q - s * s) * 1000000) \div (s * s))

\* np.diff
Diff(x) == [i \in 1 .. (Len(x) - 1) |-> x[i + 1] - x[i]]

\* interval_cv of lines 56-61, in thousandths.  The intervals are multiples of
\* hop_length ticks; numerator and denominator of the quotient are divided by
\* hop_length^2 before the scaling to keep the integers in range.
IntervalCV_noguard(beat_frames, sr, hop_length) ==
    LET beat_times == frames_to_time(beat_frames, sr, hop_length)
        intervals == Diff(beat_times)
        t == SumSeq(intervals)
        h2 == hop_length * hop_length
        d == Len(intervals) * SumSq(intervals) - t * t
    IN  IF Len(beat_times) > 1
        THEN IF t # 0 THEN ISqrt(((d \div h2) * 1000000) \div ((t * t) \div h2)) ELSE 0
        ELSE 1000

IntervalCV(beat_frames, sr, hop_length) ==
    LET beat_times == frames_to_time(beat_frames, sr, hop_length)
        intervals == Diff(beat_times)
        t == SumSeq(intervals)
        h2 == hop_length * hop_length
        d == Len(intervals) * SumSq(intervals) - t * t
    IN  IF Len(beat_times) > 1
        THEN IF t > 0 THEN ISqrt(((d \div h2) * 1000000) \div ((t * t) \div h2)) ELSE 1000
        ELSE 1000

\* len(beat_frames) < 4
TooFewBeats_lt3(beat_frames) == Len(beat_frames) < 3

TooFewBeats(beat_frames) == Len(beat_frames) < 4

compute_confidence(onset_env, beat_frames, sr, hop_length) ==
    IF TooFewBeats(beat_frames) THEN Returned(300)
    ELSE
      LET idx == InBoundsFrames(onset_env, beat_frames)
      IN  IF \E i \in DOMAIN idx : (idx[i] + 1) \notin DOMAIN onset_env
          THEN Raised("IndexError")
          ELSE
            LET beat_strengths == [i \in DOMAIN idx |-> onset_env[idx[i] + 1]]
                n == Len(beat_strengths)
                s == SumSeq(beat_strengths)
            IN  IF n < 2 THEN Returned(400)
                ELSE IF s = 0 THEN Returned(300)
                ELSE
                  LET cv == CoeffVar(n, s, SumSq(beat_strengths))
                      interval_cv == IntervalCV(beat_frames, sr, hop_length)
                      strength_confidence == Clamp(cv)
                      interval_confidence == Clamp(interval_cv)
                  IN  Returned(RoundHalfEven(4 * strength_confidence
                                             + 6 * interval_confidence, 10))

(* ---------------- estimate_downbeats ---------------- *)

\* range(0, n, 4), as 0-based indices
DownbeatIndices_stride3(n) == [j \in 1 .. ((n + 2) \div 3) |-> 3 * (j - 1)]

DownbeatIndices(n) == [j \in 1 .. ((n + 3) \div 4) |-> 4 * (j - 1)]

\* The result is a list of numbers read as seconds, kept in ticks.  With fewer
\* than 4 beats the code returns beats[:1].tolist(): the frame index itself.
estimate_downbeats(beats, bpm, sr, hop_length) ==
    IF Len(beats) < 4
    THEN IF Len(beats) > 0 THEN <<AsSeconds(beats[1], sr)>> ELSE <<>>
    ELSE
      LET beat_times == frames_to_time(beats, sr, hop_length)
          downbeat_indices == DownbeatIndices(Len(beat_times))
          kept == SelectSeq(downbeat_indices, LAMBDA i : i < Len(beat_times))
      IN  [j \in DOMAIN kept |-> beat_times[kept[j] + 1]]

(* ---------------- the audio files and the librosa provider ---------------- *)

\* The audio files on disk, by content: the waveform librosa.load decodes and what
\* librosa computes from it.  Entry 0 is the empty waveform.
Catalog ==
    [ y \in 0 .. 3 |->
        CASE y = 0 -> [samples |-> 0, onset_env |-> <<>>,
                       tempo |-> [shape |-> "scalar", value |-> 0], beat_frames |-> <<>>]
          [] y = 1 -> [samples |-> 2048, onset_env |-> <<0, 0, 0, 0, 0>>,
                       tempo |-> [shape |-> "scalar", value |-> 0], beat_frames |-> <<>>]
          [] y = 2 -> [samples |-> 2500, onset_env |-> <<0, 0, 3, 0, 0>>,
                       tempo |-> [shape |-> "array", value |-> 129199], beat_frames |-> <<2>>]
          [] y = 3 -> [samples |-> 5000, onset_env |-> <<0, 2, 0, 3, 0, 2, 0, 2, 0, 2>>,
                       tempo |-> [shape |-> "array", value |-> 117454],
                       beat_frames |-> <<1, 3, 5, 7, 9>>] ]

\* librosa.load(path, sr=22050, mono=True): the waveform of the file
load(file) == file

\* librosa.get_duration(y=y, sr=sr): len(y) / sr seconds, i.e. len(y) ticks
get_duration(y, sr) == Catalog[y].samples

\* librosa.onset.onset_strength(y=y, sr=sr, hop_length=hop_length)
onset_strength(y, sr, hop_length) == Catalog[y].onset_env

\* librosa.beat.beat_track(onset_envelope=onset_env, ...): (tempo, beat_frames)
beat_track(onset_env, sr, hop_length) ==
    LET known == {y \in DOMAIN Catalog : Catalog[y].onset_env = onset_env}
        f == Catalog[CHOOSE y \in known : TRUE]
    IN  IF known = {} THEN Catalog[0] ELSE f

\* float(tempo[0]) if hasattr(tempo, '__len__') else float(tempo)
NormalizeTempo(tempo) == tempo.value

(* ---------------- the request ---------------- *)

\* str.lower() on the characters that occur in the suffixes of the model
LowerChar(c) ==
    CASE c = "W" -> "w" [] c = "A" -> "a" [] c = "V" -> "v"
      [] c = "M" -> "m" [] c = "P" -> "p" [] c = "X" -> "x"
      [] OTHER -> c

lower(s) == [i \in DOMAIN s |-> LowerChar(s[i])]

\* audio_path.suffix.lower() in ['.wav', '.mp3', '.flac', '.ogg', '.m4a', '.aac']
SuffixAccepted_cased(suffix) == suffix \in ACCEPTED_SUFFIXES

SuffixAccepted(suffix) == lower(suffix) \in ACCEPTED_SUFFIXES

\* Path.suffix of the request paths of the model
Suffixes == { <<".", "w", "a", "v">>, <<".", "M", "P", "3">>, <<".", "x", "y", "z">>, <<>> }

\* a request: the suffix of audio_path and the file at that path (0: no such file)
Exists(inp) == inp.file # 0

RequestInputs ==
    { inp \in [suffix : Suffixes, file : 0 .. 3] :
        \/ ~Exists(inp)
        \/ inp.suffix = <<".", "w", "a", "v">>
        \/ inp.file = 3 }

(* ---------------- the inputs of the two scoring functions ---------------- *)

SeqsUpTo(S, n) == UNION { [1 .. k -> S] : k \in 0 .. n }

RECURSIVE Ascending(_)
Ascending(S) ==
    IF S = {} THEN <<>>
    ELSE LET m == CHOOSE x \in S : \A z \in S : x <= z
         IN  <<m>> \o Ascending(S \ {m})

StrictlyIncreasing(s) == \A i \in 1 .. (Len(s) - 1) : s[i] < s[i + 1]

\* any frame sequence, increasing or not (compute_confidence fixes no order)
ConfidenceFrames == SeqsUpTo(0 .. MaxFrame, MaxBeats)

OnsetCurves == SeqsUpTo(0 .. MaxStrength, MaxOnsetLen)

\* the strictly increasing frame sequences beat_track returns
GridFrames == { Ascending(S) : S \in SUBSET (0 .. MaxGridFrame) }

Tempos == {117454, 129199}

(* ---------------- state ---------------- *)

VARIABLES
    requests,       \* the analyze_audio requests of the run
    input,          \* request -> its AnalyzeRequest (suffix, file)
    pc,             \* request -> the statement it is at
    frame,          \* request -> the local variables of its analyze_audio call
    calls,          \* request -> the librosa functions called on its behalf
    errors,         \* request -> the HTTPExceptions raised to its client
    responses,      \* request -> the BeatAnalysisResponse returned to its client
    call,           \* the scoring function called directly ("none" if none)
    arg_onset_env,  \* its onset_env argument
    arg_beat_frames,\* its beat_frames / beats argument
    arg_bpm,        \* its bpm argument
    ret             \* <<>> until it returns, then <<its result>>

vars == <<requests, input, pc, frame, calls, errors, responses,
          call, arg_onset_env, arg_beat_frames, arg_bpm, ret>>

reqVars == <<requests, input, pc, frame, calls, errors, responses>>

fnVars == <<call, arg_onset_env, arg_beat_frames, arg_bpm, ret>>

NoLocals ==
    [y |-> 0, sr |-> SR, duration |-> 0, hop_length |-> HOP_LENGTH, onset_env |-> <<>>,
     tempo |-> [shape |-> "scalar", value |-> 0], beat_frames |-> <<>>, bpm |-> 0,
     beat_times |-> <<>>, confidence |-> 0, downbeats |-> <<>>]

TrySteps == {"load", "duration", "onset", "beat_track", "tempo", "to_time",
             "confidence", "downbeats", "respond"}

\* the statement order of analyze_audio
EntryStep_suffix_first == "suffix"

EntryStep == "exists"

StepAfter(step) ==
    CASE step = "exists" -> "suffix"
      [] step = "suffix" -> "load"
      [] step = "load" -> "duration"
      [] step = "duration" -> "onset"
      [] step = "onset" -> "beat_track"
      [] step = "beat_track" -> "tempo"
      [] step = "tempo" -> "to_time"
      [] step = "to_time" -> "confidence"
      [] step = "confidence" -> "downbeats"
      [] step = "downbeats" -> "respond"
      [] OTHER -> "done"

\* the librosa function a statement calls
CallAt(step) ==
    CASE step = "load" -> {"load"}
      [] step = "duration" -> {"get_duration"}
      [] step = "onset" -> {"onset_strength"}
      [] step = "beat_track" -> {"beat_track"}
      [] step \in {"to_time", "confidence", "downbeats"} -> {"frames_to_time"}
      [] OTHER -> {}

\* a local variable of request r's call
Local_shared(r, name) == frame[CHOOSE q \in requests : TRUE][name]

Local(r, name) == frame[r][name]

HTTPException(status_code, detail) == [status_code |-> status_code, detail |-> detail]

(* ---------------- initial states ---------------- *)

Init ==
    /\ requests = 1 .. NumRequests
    /\ input \in [requests -> RequestInputs]
    /\ pc = [r \in requests |-> EntryStep]
    /\ frame = [r \in requests |-> NoLocals]
    /\ calls = [r \in requests |-> {}]
    /\ errors = [r \in requests |-> <<>>]
    /\ responses = [r \in requests |-> <<>>]
    /\ call = "none"
    /\ arg_onset_env = <<>>
    /\ arg_beat_frames = <<>>
    /\ arg_bpm = 0
    /\ ret = <<>>

\* the scoring functions called directly, with no request in flight
InitFn ==
    /\ requests = {}
    /\ input = <<>>
    /\ pc = <<>>
    /\ frame = <<>>
    /\ calls = <<>>
    /\ errors = <<>>
    /\ responses = <<>>
    /\ ret = <<>>
    /\ \/ /\ call = "compute_confidence"
          /\ arg_onset_env \in OnsetCurves
          /\ arg_beat_frames \in ConfidenceFrames \cup GridFrames
          /\ arg_bpm = 0
       \/ /\ call = "estimate_downbeats"
          /\ arg_onset_env = <<>>
          /\ arg_beat_frames \in GridFrames
          /\ arg_bpm \in Tempos

(* ---------------- analyze_audio, statement by statement ---------------- *)

\* leave the function: the locals are gone
Leave(r) ==
    /\ pc' = [pc EXCEPT ![r] = "done"]
    /\ frame' = [frame EXCEPT ![r] = NoLocals]

\* advance to the next statement with the locals updated
Advance(r, locals) ==
    /\ pc' = [pc EXCEPT ![r] = StepAfter(pc[r])]
    /\ frame' = [frame EXCEPT ![r] = locals]
    /\ calls' = [calls EXCEPT ![r] = @ \cup CallAt(pc[r])]
    /\ UNCHANGED <<errors, responses>>

\* BeatAnalysisResponse(...) from the locals, with the roundings of lines 141-145
BuildResponse(r) ==
    [bpm |-> Round2(Local(r, "bpm")),
     confidence |-> Local(r, "confidence"),
     beats |-> [i \in DOMAIN Local(r, "beat_times") |-> Round4(Local(r, "beat_times")[i])],
     downbeats |-> [i \in DOMAIN Local(r, "downbeats") |-> Round4(Local(r, "downbeats")[i])],
     duration |-> Round3(Local(r, "duration"))]

\* except Exception as e: raise HTTPException(status_code=500, ...)
Except_swallow(r, e) ==
    /\ Leave(r)
    /\ calls' = [calls EXCEPT ![r] = @ \cup CallAt(pc[r])]
    /\ responses' = [responses EXCEPT ![r] = <<[bpm |-> Round2(Local(r, "bpm")),
                                                 duration |-> Round3(Local(r, "duration"))]>>]
    /\ UNCHANGED errors

Except(r, e) ==
    /\ Leave(r)
    /\ calls' = [calls EXCEPT ![r] = @ \cup CallAt(pc[r])]
    /\ errors' = [errors EXCEPT ![r] = Append(@, HTTPException(500, e))]
    /\ UNCHANGED responses

\* if not audio_path.exists(): raise HTTPException(status_code=404, ...)
CheckExists(r) ==
    /\ pc[r] = "exists"
    /\ IF Exists(input[r])
       THEN /\ pc' = [pc EXCEPT ![r] = StepAfter("exists")]
            /\ UNCHANGED <<frame, errors>>
       ELSE /\ Leave(r)
            /\ errors' = [errors EXCEPT ![r] = Append(@, HTTPException(404, "not found"))]
    /\ UNCHANGED <<requests, input, calls, responses>>
    /\ UNCHANGED fnVars

\* if not audio_path.suffix.lower() in [...]: raise HTTPException(status_code=400, ...)
CheckSuffix(r) ==
    /\ pc[r] = "suffix"
    /\ IF SuffixAccepted(input[r].suffix)
       THEN /\ pc' = [pc EXCEPT ![r] = StepAfter("suffix")]
            /\ UNCHANGED <<frame, errors>>
       ELSE /\ Leave(r)
            /\ errors' = [errors EXCEPT ![r] = Append(@, HTTPException(400, "unsupported"))]
    /\ UNCHANGED <<requests, input, calls, responses>>
    /\ UNCHANGED fnVars

\* y, sr = librosa.load(str(audio_path), sr=22050, mono=True)
Load(r) ==
    /\ pc[r] = "load"
    /\ Advance(r, [frame[r] EXCEPT !.y = load(input[r].file), !.sr = SR])
    /\ UNCHANGED <<requests, input>>
    /\ UNCHANGED fnVars

\* duration = librosa.get_duration(y=y, sr=sr); hop_length = 512
Duration(r) ==
    /\ pc[r] = "duration"
    /\ Advance(r, [frame[r] EXCEPT !.duration = get_duration(Local(r, "y"), Local(r, "sr")),
                                   !.hop_length = HOP_LENGTH])
    /\ UNCHANGED <<requests, input>>
    /\ UNCHANGED fnVars

\* onset_env = librosa.onset.onset_strength(y=y, sr=sr, hop_length=hop_length)
OnsetStrength(r) ==
    /\ pc[r] = "onset"
    /\ Advance(r, [frame[r] EXCEPT !.onset_env =
                       onset_strength(Local(r, "y"), Local(r, "sr"), Local(r, "hop_length"))])
    /\ UNCHANGED <<requests, input>>
    /\ UNCHANGED fnVars

\* tempo, beat_frames = librosa.beat.beat_track(onset_envelope=onset_env, ...)
BeatTrack(r) ==
    /\ pc[r] = "beat_track"
    /\ LET res == beat_track(Local(r, "onset_env"), Local(r, "sr"), Local(r, "hop_length"))
       IN  Advance(r, [frame[r] EXCEPT !.tempo = res.tempo, !.beat_frames = res.beat_frames])
    /\ UNCHANGED <<requests, input>>
    /\ UNCHANGED fnVars

\* bpm = float(tempo[0]) if hasattr(tempo, '__len__') else float(tempo)
Tempo(r) ==
    /\ pc[r] = "tempo"
    /\ Advance(r, [frame[r] EXCEPT !.bpm = NormalizeTempo(Local(r, "tempo"))])
    /\ UNCHANGED <<requests, input>>
    /\ UNCHANGED fnVars

\* beat_times = librosa.frames_to_time(beat_frames, sr=sr, hop_length=hop_length)
ToTime(r) ==
    /\ pc[r] = "to_time"
    /\ Advance(r, [frame[r] EXCEPT !.beat_times =
                       frames_to_time(Local(r, "beat_frames"), Local(r, "sr"),
                                      Local(r, "hop_length"))])
    /\ UNCHANGED <<requests, input>>
    /\ UNCHANGED fnVars

\* confidence = compute_confidence(onset_env, beat_frames, sr, hop_length)
Confidence(r) ==
    /\ pc[r] = "confidence"
    /\ LET res == compute_confidence(Local(r, "onset_env"), Local(r, "beat_frames"),
                                     Local(r, "sr"), Local(r, "hop_length"))
       IN  IF res.kind = "raise"
           THEN Except(r, "confidence")
           ELSE Advance(r, [frame[r] EXCEPT !.confidence = res.value])
    /\ UNCHANGED <<requests, input>>
    /\ UNCHANGED fnVars

\* downbeats = estimate_downbeats(beat_frames, bpm, sr, hop_length)
Downbeats(r) ==
    /\ pc[r] = "downbeats"
    /\ Advance(r, [frame[r] EXCEPT !.downbeats =
                       estimate_downbeats(Local(r, "beat_frames"), Local(r, "bpm"),
                                          Local(r, "sr"), Local(r, "hop_length"))])
    /\ UNCHANGED <<requests, input>>
    /\ UNCHANGED fnVars

\* return BeatAnalysisResponse(...)
Respond(r) ==
    /\ pc[r] = "respond"
    /\ Leave(r)
    /\ responses' = [responses EXCEPT ![r] = Append(@, BuildResponse(r))]
    /\ UNCHANGED <<requests, input, calls, errors>>
    /\ UNCHANGED fnVars

\* the statement request r is at raises inside the try block
Raise(r) ==
    /\ pc[r] \in TrySteps
    /\ Except(r, pc[r])
    /\ UNCHANGED <<requests, input>>
    /\ UNCHANGED fnVars

Next ==
    \/ \E r \in requests : CheckExists(r)
    \/ \E r \in requests : CheckSuffix(r)
    \/ \E r \in requests : Load(r)
    \/ \E r \in requests : Duration(r)
    \/ \E r \in requests : OnsetStrength(r)
    \/ \E r \in requests : BeatTrack(r)
    \/ \E r \in requests : Tempo(r)
    \/ \E r \in requests : ToTime(r)
    \/ \E r \in requests : Confidence(r)
    \/ \E r \in requests : Downbeats(r)
    \/ \E r \in requests : Respond(r)
    \/ \E r \in requests : Raise(r)

Spec == Init /\ [][Next]_vars

(* ---------------- the scoring functions called directly ---------------- *)

CallComputeConfidence ==
    /\ call = "compute_confidence"
    /\ ret = <<>>
    /\ ret' = <<compute_confidence(arg_onset_env, arg_beat_frames, SR, HOP_LENGTH)>>
    /\ UNCHANGED <<call, arg_onset_env, arg_beat_frames, arg_bpm>>
    /\ UNCHANGED reqVars

CallEstimateDownbeats ==
    /\ call = "estimate_downbeats"
    /\ ret = <<>>
    /\ ret' = <<estimate_downbeats(arg_beat_frames, arg_bpm, SR, HOP_LENGTH)>>
    /\ UNCHANGED <<call, arg_onset_env, arg_beat_frames, arg_bpm>>
    /\ UNCHANGED reqVars

NextFn == CallComputeConfidence \/ CallEstimateDownbeats

SpecFn == InitFn /\ [][NextFn]_vars

(* ======================= properties ======================= *)

RECURSIVE IsSubsequence(_, _)
IsSubsequence(a, b) ==
    IF a = <<>> THEN TRUE
    ELSE IF b = <<>> THEN FALSE
    ELSE IF a[1] = b[1] THEN IsSubsequence(Tail(a), Tail(b))
    ELSE IsSubsequence(a, Tail(b))

Done(r) == pc[r] = "done"

Returns200(r) == Len(responses[r]) = 1

ConfidenceReturned == call = "compute_confidence" /\ ret # <<>>

DownbeatsReturned == call = "estimate_downbeats" /\ ret # <<>>

\* the time of a beat frame in ticks: frame * hop_length / sample_rate seconds
TimeOf(f) == f * HOP_LENGTH

\* C1: in every successful response of analyze_audio the downbeats list is a
\* subsequence of the beats list.
C1_DownbeatsSubsequenceOfBeats ==
    \A r \in requests :
        Returns200(r) => IsSubsequence(responses[r][1].downbeats, responses[r][1].beats)

\* C2: estimate_downbeats returns the empty sequence for no beats, and for 1, 2 or 3
\* beats the one-element sequence holding the time of the first beat in seconds.
C2_ShortGridGivesFirstBeatTime ==
    DownbeatsReturned =>
        /\ Len(arg_beat_frames) = 0 => ret[1] = <<>>
        /\ Len(arg_beat_frames) \in 1 .. 3 => ret[1] = <<TimeOf(arg_beat_frames[1])>>

\* C3: for n >= 4 beats estimate_downbeats returns ceil(n/4) elements, the j-th
\* (from 0) being the time of beat 4*j, whatever the tempo argument is.
C3_EveryFourthBeat ==
    (DownbeatsReturned /\ Len(arg_beat_frames) >= 4) =>
        LET n == Len(arg_beat_frames)
            ceil == CHOOSE c \in 0 .. n : 4 * c >= n /\ 4 * (c - 1) < n
        IN  /\ Len(ret[1]) = ceil
            /\ \A j \in 0 .. (ceil - 1) : ret[1][j + 1] = TimeOf(arg_beat_frames[4 * j + 1])

C3_Witness ==
    /\ DownbeatsReturned
    /\ Len(arg_beat_frames) = 9
    /\ Len(ret[1]) = 3
    /\ ret[1][3] = TimeOf(arg_beat_frames[9])

\* C4: with fewer than 4 beat frames compute_confidence returns exactly 0.3, whatever
\* the onset curve is (empty, all zero, shorter than the beat indices).
C4_FewBeatsGiveLowConfidence ==
    (ConfidenceReturned /\ Len(arg_beat_frames) < 4) => ret[1] = Returned(300)

C4_Witness ==
    /\ ConfidenceReturned
    /\ Len(arg_beat_frames) = 3
    /\ arg_onset_env = <<0>>
    /\ \E i \in DOMAIN arg_beat_frames : arg_beat_frames[i] >= Len(arg_onset_env)
    /\ ret[1] = Returned(300)

\* C5: for a non-negative onset curve and strictly increasing beat frames the
\* confidence returned lies in [0.2, 1.0].
C5_ConfidenceInRange ==
    (ConfidenceReturned /\ StrictlyIncreasing(arg_beat_frames)
        /\ \A i \in DOMAIN arg_onset_env : arg_onset_env[i] >= 0) =>
        /\ ret[1].kind = "return"
        /\ ret[1].value >= 200
        /\ ret[1].value <= 1000

\* both sub-scores computed and low: uneven strengths at uneven intervals
C5_Witness ==
    /\ ConfidenceReturned
    /\ StrictlyIncreasing(arg_beat_frames)
    /\ Len(arg_beat_frames) >= 4
    /\ ret[1].kind = "return"
    /\ ret[1].value = 200

\* C6: a failure raised at any statement of the try block ends the request with
\* exactly one HTTP 500 and no response; a request never ends with both a failure and
\* a response, nor with a response lacking one of the five fields.
C6_FailureIsSingleAndWhole ==
    [][\A r \in requests :
          /\ (pc[r] \in TrySteps /\ pc'[r] = "done") =>
                \/ /\ errors'[r] = <<HTTPException(500, pc[r])>>
                   /\ responses'[r] = <<>>
                \/ /\ pc[r] = "respond"
                   /\ errors'[r] = <<>>
                   /\ Len(responses'[r]) = 1
                   /\ DOMAIN responses'[r][1] =
                          {"bpm", "confidence", "beats", "downbeats", "duration"}
          /\ Len(errors'[r]) + Len(responses'[r]) <= 1]_vars

C6_Witness ==
    \E r \in requests :
        /\ Done(r)
        /\ errors[r] = <<HTTPException(500, "downbeats")>>
        /\ responses[r] = <<>>
        /\ "beat_track" \in calls[r]

\* the suffix, compared case-insensitively, is outside the accepted set
OutsideAcceptedSet(suffix) == \A a \in ACCEPTED_SUFFIXES : lower(suffix) # a

StatusCodes(r) == { errors[r][i].status_code : i \in DOMAIN errors[r] }

AnalyzeAlone(file) ==
    LET f == Catalog[file]
    IN  [bpm |-> Round2(f.tempo.value),
         confidence |-> compute_confidence(f.onset_env, f.beat_frames, SR, HOP_LENGTH).value,
         beats |-> [i \in DOMAIN f.beat_frames |-> Round4(TimeOf(f.beat_frames[i]))],
         downbeats |->
             LET d == estimate_downbeats(f.beat_frames, f.tempo.value, SR, HOP_LENGTH)
             IN  [i \in DOMAIN d |-> Round4(d[i])],
         duration |-> Round3(f.samples)]

IsAloneOutcome(inp, errs, resps) ==
    IF ~Exists(inp)
    THEN errs = <<HTTPException(404, "not found")>> /\ resps = <<>>
    ELSE IF OutsideAcceptedSet(inp.suffix)
    THEN errs = <<HTTPException(400, "unsupported")>> /\ resps = <<>>
    ELSE \/ resps = <<>> /\ \E s \in TrySteps : errs = <<HTTPException(500, s)>>
         \/ errs = <<>> /\ resps = <<AnalyzeAlone(inp.file)>>

\* C8: however the requests interleave, the outcome of each is an outcome it has when
\* run alone on the same input, and a finished request leaves no locals behind.
C8_RequestsAreIndependent ==
    \A r \in requests :
        Done(r) =>
            /\ IsAloneOutcome(input[r], errors[r], responses[r])
            /\ frame[r] = NoLocals

C8_Witness ==
    \E r, q \in requests :
        /\ r # q
        /\ input[r].file # input[q].file
        /\ Returns200(r)
        /\ Done(q)
        /\ Returns200(q)
        /\ responses[r] # responses[q]

\* the beat frames below the onset curve length, by position
InBoundsPositions == { i \in DOMAIN arg_beat_frames : arg_beat_frames[i] < Len(arg_onset_env) }

\* C9: with 4 or more beat frames compute_confidence never raises; it returns 0.4 when
\* fewer than 2 frames are below the onset curve length, else 0.3 when the onset
\* strength at those frames is zero throughout, else, when the mean gap between beats
\* is 0, the interval sub-score is that of a coefficient of variation of 1.0.
C9_EdgeChecksInOrder ==
    (ConfidenceReturned /\ Len(arg_beat_frames) >= 4) =>
        LET n == Len(arg_beat_frames)
            k == Cardinality(InBoundsPositions)
            zero == \A i \in InBoundsPositions : arg_onset_env[arg_beat_frames[i] + 1] = 0
            strengths == [i \in 1 .. Len(InBoundsFrames(arg_onset_env, arg_beat_frames)) |->
                             arg_onset_env[InBoundsFrames(arg_onset_env, arg_beat_frames)[i] + 1]]
        IN  /\ ret[1].kind = "return"
            /\ k < 2 => ret[1].value = 400
            /\ (k >= 2 /\ zero) => ret[1].value = 300
            /\ (k >= 2 /\ ~zero /\ arg_beat_frames[n] = arg_beat_frames[1]) =>
                  ret[1].value = RoundHalfEven(
                      4 * Clamp(CoeffVar(k, SumSeq(strengths), SumSq(strengths)))
                      + 6 * Max(200, 1000 - 1000), 10)

C9_Witness ==
    /\ ConfidenceReturned
    /\ Len(arg_beat_frames) >= 4
    /\ Cardinality(InBoundsPositions) >= 2
    /\ \E i \in InBoundsPositions : arg_onset_env[arg_beat_frames[i] + 1] > 0
    /\ arg_beat_frames[Len(arg_beat_frames)] = arg_beat_frames[1]
    /\ ret[1].kind = "return"

\* C10: a missing file with an unaccepted suffix gets HTTP 404, never 400; HTTP 400
\* is only ever given for a path that exists.
C10_ExistenceCheckedFirst ==
    \A r \in requests :
        /\ (Done(r) /\ ~Exists(input[r]) /\ OutsideAcceptedSet(input[r].suffix)) =>
              errors[r] = <<HTTPException(404, "not found")>>
        /\ 400 \in StatusCodes(r) => Exists(input[r])

C10_Witness ==
    \E r \in requests :
        /\ Done(r)
        /\ ~Exists(input[r])
        /\ input[r].suffix = <<".", "x", "y", "z">>
        /\ errors[r] = <<HTTPException(404, "not found")>>

====
